---- MODULE Spec2Model ----
(***************************************************************************)
(* gpx-converter: the point/row conversion engine of                       *)
(* src/gpx_converter/base.py (Converter) and the WunderLINQ driver         *)
(* src/run/wlinq_csv_to_gpx.py.                                            *)
(*                                                                         *)
(* Python values are records [t |-> type name, s |-> str(value)], so that  *)
(* None, NaN, NaT, numbers, strings and timestamps are told apart the way  *)
(* the code tells them apart (is None, isinstance, np.isnan, truthiness).  *)
(***************************************************************************)
EXTENDS Integers, Sequences, FiniteSets, TLC

VARIABLES
    pc,          \* position of the caller: "start", "flattened", "done"
    entry,       \* the entry point that ran ("" before any call)
    gpx,         \* the parsed document read by _gpx_to_dict: tracks -> segments -> points
    opts,        \* the arguments of the call (column names, flags, output file)
    ext_tags,    \* _gpx_to_dict: the extension tag set (line 79)
    extensions,  \* _gpx_to_dict: the extension columns (lines 80-87)
    unpruned,    \* _gpx_to_dict: gpx_data after the rename (line 92), before pruning
    gpx_data,    \* _gpx_to_dict: the returned table
    input_df,    \* the table handed to dataframe_to_gpx (mutated in place by it)
    orig_df,     \* the caller's table as it was before the call
    out,         \* what a call produced: gpx_segment.points, the arguments of
                 \* pd.to_datetime and the files read; for a curve, what splev was given
    raised,      \* the exception the last call raised ("" when it returned)
    fs           \* the files on disk: path -> content

vars == <<pc, entry, gpx, opts, ext_tags, extensions, unpruned, gpx_data,
          input_df, orig_df, out, raised, fs>>

-----------------------------------------------------------------------------
(* Bounds of the model *)

\* points of a document; also bounds its tracks, its segments and its extension entries
MaxPoints == 2
\* rows of an input table
MaxRows == 3
\* control points of a curve
MaxCount == 3
\* requested degree of a curve
MaxDegree == 5
\* samples of a curve
MaxSamples == 2
\* points of a document handed to the file-writing entry points
MaxExportPoints == 1

-----------------------------------------------------------------------------
(* Python values *)

None == [t |-> "NoneType", s |-> "None"]
NaN == [t |-> "float", s |-> "nan"]
NaT == [t |-> "NaTType", s |-> "NaT"]
Float(x) == [t |-> "float", s |-> x]
PyInt(x) == [t |-> "int", s |-> x]
Str(x) == [t |-> "str", s |-> x]

\* str(value), as _add_ext applies it (line 356)
str(v) == v.s

\* bool(value), as any() applies it to the cells of a column (line 94)
bool(v) ==
    CASE v.t = "NoneType" -> FALSE
      [] v.t = "float" -> v.s \notin {"0.0", "-0.0"}
      [] v.t = "int" -> v.s # "0"
      [] v.t = "bool" -> v.s # "False"
      [] v.t = "str" -> v.s # ""
      [] OTHER -> TRUE

\* any(column) (line 94)
any(col) == \E i \in 1..Len(col) : bool(col[i])

Range(f) == {f[x] : x \in DOMAIN f}

\* {**a, **b}: the keys of b win (line 88)
DictMerge(a, b) ==
    [k \in (DOMAIN a) \cup (DOMAIN b) |-> IF k \in DOMAIN b THEN b[k] ELSE a[k]]

\* del d[k]
DictDel(d, k) == [c \in (DOMAIN d) \ {k} |-> d[c]]

\* d[k] = v
DictSet(d, k, v) == [c \in (DOMAIN d) \cup {k} |-> IF c = k THEN v ELSE d[c]]

EmptyDict == [c \in {} |-> <<>>]

RECURSIVE Flatten(_)
\* the concatenation of a sequence of sequences
Flatten(ss) == IF ss = <<>> THEN <<>> ELSE Head(ss) \o Flatten(Tail(ss))

-----------------------------------------------------------------------------
(* The parsed document (gpxpy): tracks -> segments -> points *)

\* a timestamp as gpxpy parses it from <time>
DocTime == [t |-> "datetime", s |-> "2025-06-15 15:24:20+00:00"]

\* extension tags and texts of the documents drawn
Tags == {"hr", "elevation"}
Texts == {Str("1"), Str("2"), None}

ExtEntries == [tag : Tags, text : Texts]

ExtLists == UNION {[1..n -> ExtEntries] : n \in 0..MaxPoints}

\* points that differ in their native attributes
StdPoints ==
    [latitude : {Float("0.0"), Float("1.5")}, longitude : {Float("2.5")},
     elevation : {None, Float("0.0"), Float("5.0")}, time : {None, DocTime},
     satellites : {None, PyInt("4")}, extensions : {<<>>}]

\* points that differ in their extension entries
ExtPoints ==
    [latitude : {Float("1.5")}, longitude : {Float("2.5")},
     elevation : {Float("5.0")}, time : {DocTime},
     satellites : {None}, extensions : ExtLists]

\* the shapes of a document: per track, the number of points of each segment
SegLens == 0..MaxPoints
TrackShapes == UNION {[1..n -> SegLens] : n \in 0..MaxPoints}
DocShapes == UNION {[1..n -> TrackShapes] : n \in 0..MaxPoints}

RECURSIVE SumSeq(_)
SumSeq(s) == IF s = <<>> THEN 0 ELSE Head(s) + SumSeq(Tail(s))

ShapeTotal(sh) == SumSeq(Flatten(sh))

\* the document of shape sh whose points, in traversal order, are pts
RECURSIVE BuildSegs(_, _)
BuildSegs(lens, pts) ==
    IF lens = <<>> THEN <<>>
    ELSE <<SubSeq(pts, 1, Head(lens))>>
         \o BuildSegs(Tail(lens), SubSeq(pts, Head(lens) + 1, Len(pts)))

RECURSIVE BuildDoc(_, _)
BuildDoc(sh, pts) ==
    IF sh = <<>> THEN <<>>
    ELSE <<BuildSegs(Head(sh), SubSeq(pts, 1, SumSeq(Head(sh))))>>
         \o BuildDoc(Tail(sh), SubSeq(pts, SumSeq(Head(sh)) + 1, Len(pts)))

\* the number of extension entries of a sequence of points
ExtCount(pts) == Len(Flatten([i \in 1..Len(pts) |-> pts[i].extensions]))

\* the point sequences of length n that a document is drawn from
PointSeqs(n) ==
    [1..n -> StdPoints]
        \cup {pts \in [1..n -> ExtPoints] : ExtCount(pts) <= MaxPoints}

\* at most MaxPoints points and MaxPoints segments in a document
Shapes ==
    {sh \in DocShapes : ShapeTotal(sh) <= MaxPoints /\ Len(Flatten(sh)) <= MaxPoints}

Documents ==
    {BuildDoc(sh, pts) : <<sh, pts>> \in UNION {{sh} \X PointSeqs(ShapeTotal(sh)) : sh \in Shapes}}

\* the points of a document in track -> segment -> point order (lines 67-69)
AllPoints(doc) == Flatten(Flatten(doc))

-----------------------------------------------------------------------------
(* Converter._gpx_to_dict: document -> table *)

\* the point attributes that become columns (lines 51-60): the four named ones and
\* the other non-callable attributes of the point class, of which satellites stands
\* for all (name, speed, symbol, ... are read by the same getattr)
items == <<"time", "longitude", "latitude", "elevation", "satellites">>

\* gpx.tracks[0].segments[0].points[0] exists (lines 51-52, 64)
HasFirstPoint(doc) == Len(doc) > 0 /\ Len(doc[1]) > 0 /\ Len(doc[1][1]) > 0

\* lines 70-71: gpx_data[item] += [getattr(point, item)], for every item
AppendItems(data, point) == [c \in DOMAIN data |-> Append(data[c], point[c])]

RECURSIVE StandardPass(_, _)
\* lines 67-71 over the points in traversal order
StandardPass(pts, data) ==
    IF pts = <<>> THEN data
    ELSE StandardPass(Tail(pts), AppendItems(data, Head(pts)))

\* lines 73-74: ext_tags += [extension.tag], for every entry of one point
PointTags(point) == [i \in 1..Len(point.extensions) |-> point.extensions[i].tag]

\* a first pass that reads the entries of the first point only
TagList_FirstPoint(pts) == IF pts = <<>> THEN <<>> ELSE PointTags(pts[1])

\* lines 67-74: the list ext_tags after the first pass
TagList(pts) == Flatten([i \in 1..Len(pts) |-> PointTags(pts[i])])

\* lines 84-85: extensions[ext_tag] += [None], for every tag of the set
AppendNulls(exts) == [t \in DOMAIN exts |-> Append(exts[t], None)]

RECURSIVE WriteEntries_FirstWins(_, _)
\* a second pass that keeps the first text written to a cell
WriteEntries_FirstWins(entries, exts) ==
    IF entries = <<>> THEN exts
    ELSE WriteEntries_FirstWins(Tail(entries),
            [exts EXCEPT ![Head(entries).tag] =
                [@ EXCEPT ![Len(@)] = IF @ = None THEN Head(entries).text ELSE @]])

RECURSIVE WriteEntries(_, _)
\* lines 86-87: extensions[extension.tag][-1] = extension.text, in entry order
WriteEntries(entries, exts) ==
    IF entries = <<>> THEN exts
    ELSE WriteEntries(Tail(entries),
            [exts EXCEPT ![Head(entries).tag] =
                [@ EXCEPT ![Len(@)] = Head(entries).text]])

RECURSIVE ExtensionPass_OnlyTagged(_, _)
\* a second pass that adds a row only for the points that have entries
ExtensionPass_OnlyTagged(pts, exts) ==
    IF pts = <<>> THEN exts
    ELSE IF Head(pts).extensions = <<>> THEN ExtensionPass_OnlyTagged(Tail(pts), exts)
    ELSE ExtensionPass_OnlyTagged(Tail(pts),
            WriteEntries(Head(pts).extensions, AppendNulls(exts)))

RECURSIVE ExtensionPass(_, _)
\* lines 81-87 over the points in traversal order
ExtensionPass(pts, exts) ==
    IF pts = <<>> THEN exts
    ELSE ExtensionPass(Tail(pts), WriteEntries(Head(pts).extensions, AppendNulls(exts)))

\* lines 91-92: the elevation column is renamed to altitude
RenameElevation(data) == DictDel(DictSet(data, "altitude", data["elevation"]), "elevation")

\* a pruning that deletes only the columns whose cells are all None
Prune_NoneOnly(data) ==
    [c \in {k \in DOMAIN data : \E i \in 1..Len(data[k]) : data[k][i] # None} |-> data[c]]

\* lines 93-95: the columns with no truthy value are deleted
Prune(data) == [c \in {k \in DOMAIN data : any(data[k])} |-> data[c]]

\* _gpx_to_dict (lines 45-97); the column-name arguments are not read by the body
_gpx_to_dict(doc, export_extensions) ==
    IF ~HasFirstPoint(doc)
    THEN [raised |-> "IndexError", ext_tags |-> {}, extensions |-> EmptyDict,
          unpruned |-> EmptyDict, gpx_data |-> EmptyDict]
    ELSE
        LET pts == AllPoints(doc)
            std == StandardPass(pts, [c \in Range(items) |-> <<>>])
            tags == IF export_extensions THEN Range(TagList(pts)) ELSE {}
            exts == IF export_extensions
                    THEN ExtensionPass(pts, [t \in tags |-> <<>>])
                    ELSE EmptyDict
            merged == IF export_extensions THEN DictMerge(std, exts) ELSE std
            renamed == RenameElevation(merged)
        IN [raised |-> "", ext_tags |-> tags, extensions |-> exts,
            unpruned |-> renamed, gpx_data |-> Prune(renamed)]

-----------------------------------------------------------------------------
(* Tables (pandas.DataFrame): index 1..n and a column -> cells mapping *)

\* the rows of a table, as input_df.index (line 361)
Index(df) == [i \in 1..df.n |-> i]

\* pd.DataFrame.from_dict of a dict of equal-length lists (line 117): a numeric
\* column holding None becomes float64 (None -> NaN, int -> float), a datetime
\* column becomes datetime64 (None -> NaT, datetime -> Timestamp), any other
\* column is kept as objects
ColumnKind(col) ==
    LET present == {col[i].t : i \in {j \in 1..Len(col) : col[j] # None}}
    IN IF present # {} /\ present \subseteq {"float", "int"} THEN "numeric"
       ELSE IF present = {"datetime"} THEN "datetime"
       ELSE "object"

FromDictCell(kind, hasNone, v) ==
    CASE kind = "numeric" /\ v = None -> NaN
      [] kind = "numeric" /\ hasNone /\ v.t = "int" -> Float(v.s \o ".0")
      [] kind = "datetime" /\ v = None -> NaT
      [] kind = "datetime" -> [t |-> "Timestamp", s |-> v.s]
      [] OTHER -> v

from_dict(d) ==
    [n |-> IF DOMAIN d = {} THEN 0 ELSE Len(d[CHOOSE c \in DOMAIN d : TRUE]),
     data |-> [c \in DOMAIN d |->
                [i \in 1..Len(d[c]) |->
                    FromDictCell(ColumnKind(d[c]), None \in Range(d[c]), d[c][i])]]]

-----------------------------------------------------------------------------
(* Timestamps and pd.to_datetime *)

\* the time-parse formats a caller gives ("" is None: no format given)
WlinqFormat == "%Y%m%d-%H:%M:%S.%f"
IsoFormat == "%Y-%m-%dT%H:%M:%S"

\* the time strings of the tables drawn: a WunderLINQ local time, the same instant
\* in UTC (Asia/Nicosia is UTC+3 on that day), an ISO-8601 time, and no time at all
WlinqLocal == Str("20250615-18:24:20.306")
WlinqUtc == Str("20250615-15:24:20.306")
IsoTime == Str("2025-06-15T18:24:20")
BadTime == Str("n/a")

\* strptime: the naive timestamp a string denotes under a format ("" when it does not match)
Strptime(v, format) ==
    CASE v = WlinqLocal /\ format = WlinqFormat -> "2025-06-15 18:24:20.306000"
      [] v = WlinqUtc /\ format = WlinqFormat -> "2025-06-15 15:24:20.306000"
      [] v = IsoTime /\ format = IsoFormat -> "2025-06-15 18:24:20"
      [] OTHER -> ""

\* the format the inferring parser settles on for a string ("" when it finds none);
\* whether it recognises the compact WunderLINQ form depends on the pandas/dateutil
\* version, so that is an outcome (compact) the caller of the model chooses
Inferred(v, compact) ==
    CASE v = IsoTime -> IsoFormat
      [] v \in {WlinqLocal, WlinqUtc} /\ compact -> WlinqFormat
      [] OTHER -> ""

\* utc=True makes a naive timestamp an aware one in UTC
Localize(repr, utc) == IF utc THEN repr \o "+00:00" ELSE repr

IsNull(v) == v \in {None, NaN, NaT}

\* one cell of pd.to_datetime(column, format=format, utc=utc): a Timestamp, NaT for
\* a null cell, or "error" for a cell that does not parse
ParseCell(v, format, utc, compact) ==
    LET f == IF format = "" THEN Inferred(v, compact) ELSE format
    IN CASE IsNull(v) -> NaT
         [] v.t \in {"Timestamp", "datetime"} -> [t |-> "Timestamp", s |-> v.s]
         [] v.t = "str" /\ Strptime(v, f) # "" ->
                [t |-> "Timestamp", s |-> Localize(Strptime(v, f), utc)]
         [] OTHER -> [t |-> "error", s |-> v.s]

\* pd.to_datetime(column, format, errors, utc): errors="coerce" turns the cells that
\* do not parse into NaT, errors="raise" fails the whole call
to_datetime(col, format, errors, utc, compact) ==
    LET cells == [i \in 1..Len(col) |-> ParseCell(col[i], format, utc, compact)]
        failed == \E i \in 1..Len(col) : cells[i].t = "error"
    IN IF failed /\ errors = "raise"
       THEN [raised |-> "ValueError", col |-> col]
       ELSE [raised |-> "",
             col |-> [i \in 1..Len(col) |-> IF cells[i].t = "error" THEN NaT ELSE cells[i]]]

\* Timestamp.to_pydatetime() (line 370)
to_pydatetime(v) == [t |-> "datetime", s |-> v.s]

-----------------------------------------------------------------------------
(* Converter.dataframe_to_gpx: table -> document *)

WLINQ_NS == "https://wunderlinq.local/ns/1"

\* a path is its stem and its extension; NoPath is None
NoPath == [stem |-> "", ext |-> ""]
Path(stem, ext) == [stem |-> stem, ext |-> ext]

\* os.path.splitext(path)[1]
splitext(path) == path.ext

\* the telemetry catalogue, in the order of the _add_ext calls (lines 392-424):
\* the extension tag and the argument that names its source column
TelemetryCatalogue ==
    << [tag |-> "speed_kmh", arg |-> "speed_colname"],
       [tag |-> "gps_speed_kmh", arg |-> "gps_speed_colname"],
       [tag |-> "altitude_m", arg |-> "alts_colname"],
       [tag |-> "gear", arg |-> "gear_colname"],
       [tag |-> "engine_temp_c", arg |-> "engine_temp_colname"],
       [tag |-> "ambient_temp_c", arg |-> "ambient_temp_colname"],
       [tag |-> "front_tire_pressure_bar", arg |-> "front_tire_pr_colname"],
       [tag |-> "rear_tire_pressure_bar", arg |-> "rear_tire_pr_colname"],
       [tag |-> "odometer_km", arg |-> "odo_colname"],
       [tag |-> "battery_voltage_v", arg |-> "bt_volt_colname"],
       [tag |-> "throttle_pct", arg |-> "throttle_colname"],
       [tag |-> "front_brakes", arg |-> "front_brakes_colname"],
       [tag |-> "rear_brakes", arg |-> "rear_brakes_colname"],
       [tag |-> "shifts", arg |-> "shifts_colname"],
       [tag |-> "vin", arg |-> "vin_colname"],
       [tag |-> "ambient_light", arg |-> "ambient_light_colname"],
       [tag |-> "trip1_km", arg |-> "trip1_colname"],
       [tag |-> "trip2_km", arg |-> "trip2_colname"],
       [tag |-> "trip_auto_km", arg |-> "trip_auto_colname"],
       [tag |-> "avg_speed_kmh", arg |-> "avg_speed_colname"],
       [tag |-> "current_consumption_l_per_100km", arg |-> "crnt_consumption_colname"],
       [tag |-> "fuel_economy_1_l_per_100km", arg |-> "fuel1_economy_colname"],
       [tag |-> "fuel_economy_2_l_per_100km", arg |-> "fuel2_economy_colname"],
       [tag |-> "fuel_range_km", arg |-> "fuel_range_colname"],
       [tag |-> "lean_angle_mobile_deg", arg |-> "lean_angle_mobile_colname"],
       [tag |-> "g_force", arg |-> "g_force_colname"],
       [tag |-> "bearing_deg", arg |-> "bearing_colname"],
       [tag |-> "barometer_kpa", arg |-> "barometer_kpa_colname"],
       [tag |-> "rpm", arg |-> "rpm_colname"],
       [tag |-> "lean_angle_deg", arg |-> "lean_angle_colname"],
       [tag |-> "rear_wheel_speed_kmh", arg |-> "rear_wheel_speed_colname"],
       [tag |-> "device_battery_pct", arg |-> "device_batt_colname"] >>

\* the native attributes of GPXTrackPoint that are read from a column (lines 382-388)
PointAttributes ==
    << [attr |-> "speed", arg |-> "speed_colname"],
       [attr |-> "symbol", arg |-> "symbol_colname"],
       [attr |-> "comment", arg |-> "comment_colname"],
       [attr |-> "name", arg |-> "name_colname"],
       [attr |-> "horizontal_dilution", arg |-> "horizontal_dilution_colname"],
       [attr |-> "vertical_dilution", arg |-> "vertical_dilution_colname"],
       [attr |-> "position_dilution", arg |-> "position_dilution_colname"] >>

\* the *_colname parameters of dataframe_to_gpx (lines 222-261); "" is None
ColnameArgs ==
    {"lats_colname", "longs_colname", "times_colname"}
        \cup {TelemetryCatalogue[i].arg : i \in DOMAIN TelemetryCatalogue}
        \cup {PointAttributes[i].arg : i \in DOMAIN PointAttributes}

\* the defaults of the parameters (lines 222-265)
DefaultColnames ==
    [a \in ColnameArgs |->
        CASE a = "lats_colname" -> "latitude"
          [] a = "longs_colname" -> "longitude"
          [] OTHER -> ""]

\* _get (lines 340-350): the cell, or None when the column is not configured, is
\* not in the table, or the cell is None or NaN
_get(df, idx, col) ==
    IF col = "" THEN None
    ELSE IF col \notin DOMAIN df.data THEN None
    ELSE LET v == df.data[col][idx]
         IN IF v = None THEN None
            ELSE IF v.t = "float" /\ v.s = "nan" THEN None
            ELSE v

\* an entry put in front of the earlier ones
_add_ext_Prepend(exts, tag, value) ==
    IF value = None THEN exts
    ELSE <<[tag |-> "{" \o WLINQ_NS \o "}" \o tag, text |-> Str(str(value))]>> \o exts

\* an _add_ext that writes an empty entry for a missing value
_add_ext_EmitEmpty(exts, tag, value) ==
    Append(exts, [tag |-> "{" \o WLINQ_NS \o "}" \o tag,
                  text |-> IF value = None THEN Str("") ELSE Str(str(value))])

\* _add_ext (lines 352-357) on the extension list of the point
_add_ext(exts, tag, value) ==
    IF value = None THEN exts
    ELSE Append(exts, [tag |-> "{" \o WLINQ_NS \o "}" \o tag, text |-> Str(str(value))])

RECURSIVE TelemetryExtensions(_, _, _, _, _)
\* lines 392-424: one _add_ext call per catalogue field, in catalogue order
TelemetryExtensions(cat, exts, df, idx, cols) ==
    IF cat = <<>> THEN exts
    ELSE TelemetryExtensions(Tail(cat),
            _add_ext(exts, Head(cat).tag, _get(df, idx, cols[Head(cat).arg])),
            df, idx, cols)

\* a point built without its elevation
TrackPoint_NoElevation(df, idx, cols, lat, lon) ==
    LET t == _get(df, idx, cols["times_colname"])
        time_val == IF t.t = "Timestamp" THEN to_pydatetime(t) ELSE None
    IN [a \in {PointAttributes[i].attr : i \in DOMAIN PointAttributes} |->
            LET i == CHOOSE j \in DOMAIN PointAttributes : PointAttributes[j].attr = a
            IN _get(df, idx, cols[PointAttributes[i].arg])]
       @@ [latitude |-> lat, longitude |-> lon, time |-> time_val,
           elevation |-> None,
           extensions |-> TelemetryExtensions(TelemetryCatalogue, <<>>, df, idx, cols)]

\* lines 368-389: the GPXTrackPoint of a row
TrackPoint(df, idx, cols, lat, lon) ==
    LET t == _get(df, idx, cols["times_colname"])
        time_val == IF t.t = "Timestamp" THEN to_pydatetime(t) ELSE None
    IN [a \in {PointAttributes[i].attr : i \in DOMAIN PointAttributes} |->
            LET i == CHOOSE j \in DOMAIN PointAttributes : PointAttributes[j].attr = a
            IN _get(df, idx, cols[PointAttributes[i].arg])]
       @@ [latitude |-> lat, longitude |-> lon, time |-> time_val,
           elevation |-> _get(df, idx, cols["alts_colname"]),
           extensions |-> TelemetryExtensions(TelemetryCatalogue, <<>>, df, idx, cols)]

RECURSIVE CreatePoints_Break(_, _, _, _)
\* a loop that stops at the first row without latitude or longitude
CreatePoints_Break(index, points, df, cols) ==
    IF index = <<>> THEN points
    ELSE LET idx == Head(index)
             lat == _get(df, idx, cols["lats_colname"])
             lon == _get(df, idx, cols["longs_colname"])
         IN IF lat = None \/ lon = None
            THEN points
            ELSE CreatePoints_Break(Tail(index),
                                    Append(points, TrackPoint(df, idx, cols, lat, lon)),
                                    df, cols)

RECURSIVE CreatePoints(_, _, _, _)
\* lines 361-426: the loop over input_df.index; a row without latitude or
\* longitude is skipped
CreatePoints(index, points, df, cols) ==
    IF index = <<>> THEN points
    ELSE LET idx == Head(index)
             lat == _get(df, idx, cols["lats_colname"])
             lon == _get(df, idx, cols["longs_colname"])
         IN IF lat = None \/ lon = None
            THEN CreatePoints(Tail(index), points, df, cols)
            ELSE CreatePoints(Tail(index),
                              Append(points, TrackPoint(df, idx, cols, lat, lon)), df, cols)

\* errors="coerce" (lines 333, 337)
TimeErrors == "coerce"

\* lines 329-338: the time column is parsed once, in place
ParseTimes(df, times_colname, time_format, time_utc, compact) ==
    IF times_colname # "" /\ times_colname \in DOMAIN df.data
    THEN LET parsed == to_datetime(df.data[times_colname], time_format, TimeErrors,
                                   time_utc, compact)
         IN [raised |-> parsed.raised, df |-> [df EXCEPT !.data[times_colname] = parsed.col]]
    ELSE [raised |-> "", df |-> df]

NoCall == [called |-> FALSE, format |-> "", utc |-> FALSE, errors |-> ""]

\* the arguments pd.to_datetime is called with (lines 330-338)
ParseCall(df, times_colname, time_format, time_utc) ==
    IF times_colname # "" /\ times_colname \in DOMAIN df.data
    THEN [called |-> TRUE, format |-> time_format, utc |-> time_utc, errors |-> TimeErrors]
    ELSE NoCall

\* open(output_file, 'w').write(...)
WriteFile(files, path, content) ==
    [p \in (DOMAIN files) \cup {path} |-> IF p = path THEN content ELSE files[p]]

\* dataframe_to_gpx (lines 221-430); reads are the files whose content the call read
dataframe_to_gpx(files, df, cols, time_format, time_utc, output_file, compact) ==
    IF output_file = NoPath
    THEN [raised |-> "Exception", df |-> df, points |-> <<>>, call |-> NoCall, fs |-> files,
          reads |-> {}]
    ELSE IF splitext(output_file) # ".gpx"
    THEN [raised |-> "TypeError", df |-> df, points |-> <<>>, call |-> NoCall, fs |-> files,
          reads |-> {}]
    ELSE LET parsed == ParseTimes(df, cols["times_colname"], time_format, time_utc, compact)
             points == CreatePoints(Index(parsed.df), <<>>, parsed.df, cols)
             call == ParseCall(df, cols["times_colname"], time_format, time_utc)
         IN IF parsed.raised # ""
            THEN [raised |-> parsed.raised, df |-> df, points |-> <<>>, call |-> call,
                  fs |-> files, reads |-> {}]
            ELSE [raised |-> "", df |-> parsed.df, points |-> points, call |-> call,
                  fs |-> WriteFile(files, output_file, [kind |-> "gpx", points |-> points]),
                  reads |-> {}]

-----------------------------------------------------------------------------
(* Converter.__init__ and Converter.csv_to_gpx *)

\* pd.read_csv: an empty field is read as NaN
read_csv(content) ==
    [content.df EXCEPT !.data =
        [c \in DOMAIN @ |-> [i \in 1..Len(@[c]) |->
            IF @[c][i] \in {Str(""), None} THEN NaN ELSE @[c][i]]]]

\* DataFrame.to_csv
to_csv(df) == [kind |-> "csv", df |-> df]

\* Converter.__init__ (lines 29-41): the exception it raises, "" when it returns
ConverterInit(files, input_file) ==
    IF input_file = NoPath \/ input_file \notin DOMAIN files THEN "Exception" ELSE ""

\* csv_to_gpx (lines 432-565): time_format and time_utc are parameters of the method
\* and are not among the arguments of its dataframe_to_gpx call (lines 522-564)
csv_to_gpx(files, input_file, cols, time_format, time_utc, output_file, compact) ==
    LET fail(e) == [raised |-> e, df |-> [n |-> 0, data |-> EmptyDict], points |-> <<>>,
                    call |-> NoCall, fs |-> files, reads |-> {}]
    IN IF ConverterInit(files, input_file) # "" THEN fail(ConverterInit(files, input_file))
       ELSE IF output_file = NoPath THEN fail("Exception")
       ELSE IF splitext(input_file) # ".csv" THEN fail("TypeError")
       ELSE [dataframe_to_gpx(files, read_csv(files[input_file]), cols, "", FALSE,
                              output_file, compact)
                EXCEPT !.reads = {input_file}]

-----------------------------------------------------------------------------
(* The WunderLINQ driver, src/run/wlinq_csv_to_gpx.py *)

\* WLINQ_COLS (lines 16-60)
WLINQ_COLS ==
    [lat |-> "Latitude", lon |-> "Longitude", time |-> "Time (yyyyMMdd-HH:mm:ss.SSS)",
     ele |-> "Elevation (m)", speed |-> "Speed (kmh)", gps_speed |-> "GPS Speed (kmh)",
     rear_wheel_speed |-> "Rear Wheel Speed (kmh)", rpm |-> "RPM", gear |-> "Gear",
     throttle |-> "Throttle Position (%)", engine_temp |-> "Engine Temperature (C)",
     ambient_temp |-> "Ambient Temperature (C)",
     front_tire_pr |-> "Front Tire Pressure (bar)",
     rear_tire_pr |-> "Rear Tire Pressure (bar)", odo |-> "Odometer (km)",
     bt_volt |-> "Voltage (V)", device_batt |-> "Device Battery (%)",
     front_brakes |-> "Front Brakes", rear_brakes |-> "Rear Brakes", shifts |-> "Shifts",
     vin |-> "VIN", ambient_light |-> "Ambient Light", trip1 |-> "Trip 1 (km)",
     trip2 |-> "Trip 2 (km)", trip_auto |-> "Trip Auto (km)",
     avg_speed |-> "Average Speed (kmh)",
     current_consumption |-> "Current Consumption (L/100)",
     fuel1_economy |-> "Fuel Economy 1 (L/100)",
     fuel2_economy |-> "Fuel Economy 2 (L/100)", fuel_range |-> "Fuel Range (km)",
     lean_angle_mobile |-> "Lean Angle Mobile", lean_angle |-> "Lean Angle",
     g_force |-> "g-force", bearing |-> "Bearing", barometer_kpa |-> "Barometer (kPa)"]

\* the column arguments of the driver's csv_to_gpx call (lines 190-234)
WlinqColnames ==
    [a \in ColnameArgs |->
        CASE a = "lats_colname" -> WLINQ_COLS.lat
          [] a = "longs_colname" -> WLINQ_COLS.lon
          [] a = "times_colname" -> WLINQ_COLS.time
          [] a = "alts_colname" -> WLINQ_COLS.ele
          [] a = "speed_colname" -> WLINQ_COLS.speed
          [] a = "gps_speed_colname" -> WLINQ_COLS.gps_speed
          [] a = "rear_wheel_speed_colname" -> WLINQ_COLS.rear_wheel_speed
          [] a = "rpm_colname" -> WLINQ_COLS.rpm
          [] a = "gear_colname" -> WLINQ_COLS.gear
          [] a = "throttle_colname" -> WLINQ_COLS.throttle
          [] a = "engine_temp_colname" -> WLINQ_COLS.engine_temp
          [] a = "ambient_temp_colname" -> WLINQ_COLS.ambient_temp
          [] a = "front_tire_pr_colname" -> WLINQ_COLS.front_tire_pr
          [] a = "rear_tire_pr_colname" -> WLINQ_COLS.rear_tire_pr
          [] a = "odo_colname" -> WLINQ_COLS.odo
          [] a = "bt_volt_colname" -> WLINQ_COLS.bt_volt
          [] a = "device_batt_colname" -> WLINQ_COLS.device_batt
          [] a = "front_brakes_colname" -> WLINQ_COLS.front_brakes
          [] a = "rear_brakes_colname" -> WLINQ_COLS.rear_brakes
          [] a = "shifts_colname" -> WLINQ_COLS.shifts
          [] a = "vin_colname" -> WLINQ_COLS.vin
          [] a = "ambient_light_colname" -> WLINQ_COLS.ambient_light
          [] a = "trip1_colname" -> WLINQ_COLS.trip1
          [] a = "trip2_colname" -> WLINQ_COLS.trip2
          [] a = "trip_auto_colname" -> WLINQ_COLS.trip_auto
          [] a = "avg_speed_colname" -> WLINQ_COLS.avg_speed
          [] a = "crnt_consumption_colname" -> WLINQ_COLS.current_consumption
          [] a = "fuel1_economy_colname" -> WLINQ_COLS.fuel1_economy
          [] a = "fuel2_economy_colname" -> WLINQ_COLS.fuel2_economy
          [] a = "fuel_range_colname" -> WLINQ_COLS.fuel_range
          [] a = "lean_angle_mobile_colname" -> WLINQ_COLS.lean_angle_mobile
          [] a = "lean_angle_colname" -> WLINQ_COLS.lean_angle
          [] a = "g_force_colname" -> WLINQ_COLS.g_force
          [] a = "bearing_colname" -> WLINQ_COLS.bearing
          [] a = "barometer_kpa_colname" -> WLINQ_COLS.barometer_kpa
          [] OTHER -> ""]

\* validate_columns (lines 78-91): the exception it raises, "" when it returns
validate_columns(files, csv_path, mapping) ==
    LET headers == DOMAIN read_csv(files[csv_path]).data
        missing == {h \in Range(mapping) : h # "" /\ h \notin headers}
    IN IF missing # {} THEN "ValueError" ELSE ""

\* tz.gettz(name) is None for a name the timezone database does not hold (line 110)
KnownTimezones == {"Asia/Nicosia"}

\* lines 128-134: the local time as UTC, in the WunderLINQ form with milliseconds
UtcString(ts) ==
    CASE ts.s = "2025-06-15 18:24:20.306000" -> WlinqUtc
      [] ts.s = "2025-06-15 18:24:20" -> Str("20250615-15:24:20.000")
      [] ts.s = "2025-06-15 15:24:20.306000" -> Str("20250615-12:24:20.306")
      [] OTHER -> Str("")

\* the path tempfile.NamedTemporaryFile gives (line 138)
TempCsv == Path("wlinq_utc_", ".csv")

\* the write that fails with an OSError (a full disk, a file that cannot be written):
\* none, df.to_csv(tmp_path) of line 142, or p.write_text of line 164
IOFaults == {"", "to_csv", "write_text"}

\* the file NamedTemporaryFile creates (line 138), before anything is written to it
EmptyFile == [kind |-> "csv", df |-> [n |-> 0, data |-> EmptyDict]]

\* _rewrite_csv_time_to_utc_temp_csv (lines 94-143)
_rewrite_csv_time_to_utc_temp_csv(files, src_csv, time_col, format, local_tz_name, fault) ==
    LET df == read_csv(files[src_csv])
        parsed == to_datetime(df.data[time_col], format, "raise", FALSE, FALSE)
        utc_strings == [i \in 1..Len(parsed.col) |->
                          IF parsed.col[i] = NaT THEN Str("") ELSE UtcString(parsed.col[i])]
    IN IF time_col \notin DOMAIN df.data THEN [raised |-> "ValueError", fs |-> files]
       ELSE IF local_tz_name \notin KnownTimezones THEN [raised |-> "ValueError", fs |-> files]
       ELSE IF parsed.raised # "" THEN [raised |-> parsed.raised, fs |-> files]
       ELSE IF fault = "to_csv"
       THEN [raised |-> "OSError", fs |-> WriteFile(files, TempCsv, EmptyFile)]
       ELSE [raised |-> "",
             fs |-> WriteFile(files, TempCsv, to_csv([df EXCEPT !.data[time_col] = utc_strings]))]

\* the timestamps that carry a UTC offset
AwareTimes ==
    {Localize(r, TRUE) : r \in {"2025-06-15 18:24:20.306000", "2025-06-15 15:24:20.306000",
                                 "2025-06-15 18:24:20", "2025-06-15 15:24:20"}}
        \cup {DocTime.s}

\* _force_gpx_times_to_have_z (lines 146-164): every <time> without Z or an offset gets a Z
_force_gpx_times_to_have_z(files, gpx_path) ==
    [files EXCEPT ![gpx_path].points =
        [i \in 1..Len(@) |->
            IF @[i].time = None \/ @[i].time.s \in AwareTimes THEN @[i]
            ELSE [@[i] EXCEPT !.time.s = @ \o "Z"]]]

\* Path.unlink (line 249)
Unlink(files, path) == [p \in (DOMAIN files) \ {path} |-> files[p]]

\* convert_wunderlinq_csv_to_gpx (lines 167-251)
convert_wunderlinq_csv_to_gpx(files, cfg, compact, fault) ==
    LET fail(e, f) == [raised |-> e, df |-> [n |-> 0, data |-> EmptyDict], points |-> <<>>,
                       call |-> NoCall, fs |-> f, reads |-> {cfg.csv_path}]
        invalid == validate_columns(files, cfg.csv_path, WLINQ_COLS)
        rewritten == _rewrite_csv_time_to_utc_temp_csv(files, cfg.csv_path, WLINQ_COLS.time,
                                                       cfg.time_format, cfg.local_tz, fault)
        input_csv_for_converter == IF cfg.time_utc THEN TempCsv ELSE cfg.csv_path
        converter_time_format == IF cfg.time_utc THEN WlinqFormat ELSE cfg.time_format
        converter_time_utc == cfg.time_utc
        before == IF cfg.time_utc THEN rewritten.fs ELSE files
        converted == csv_to_gpx(before, input_csv_for_converter, WlinqColnames,
                                converter_time_format, converter_time_utc,
                                cfg.output_gpx_path, compact)
        forced == IF cfg.time_utc
                  THEN _force_gpx_times_to_have_z(converted.fs, cfg.output_gpx_path)
                  ELSE converted.fs
        cleaned(f) == IF cfg.time_utc THEN Unlink(f, TempCsv) ELSE f
    IN IF invalid # "" THEN fail(invalid, files)
       ELSE IF cfg.time_utc /\ rewritten.raised # "" THEN fail(rewritten.raised, rewritten.fs)
       ELSE IF converted.raised # ""
       THEN [converted EXCEPT !.fs = cleaned(@), !.reads = @ \cup {cfg.csv_path}]
       ELSE IF cfg.time_utc /\ fault = "write_text"
       THEN [converted EXCEPT !.raised = "OSError", !.fs = cleaned(@),
                              !.reads = @ \cup {cfg.csv_path}]
       ELSE [converted EXCEPT !.fs = cleaned(forced), !.reads = @ \cup {cfg.csv_path}]

-----------------------------------------------------------------------------
(* The other table-to-document wrappers: excel_to_gpx, json_to_gpx and
   convert_multi_csv_to_gpx *)

\* the keyword parameters of dataframe_to_gpx (lines 222-265); it takes no **kwargs
DataframeToGpxParams ==
    ColnameArgs \cup {"input_df", "time_format", "time_utc", "output_file"}

\* the keywords of the dataframe_to_gpx calls of json_to_gpx (lines 636-648) and
\* convert_multi_csv_to_gpx (lines 675-687)
JsonKeywords ==
    {"input_df", "lats_colname", "longs_colname", "times_colname", "alts_colname",
     "speed_colname", "symbol_colname", "comment_colname", "name_colname",
     "horizontal_dilution_colname", "vertical_dilution_colname",
     "position_dilution_colname", "output_file"}

\* the keywords of the call of excel_to_gpx (lines 595-608)
ExcelKeywords == JsonKeywords \cup {"sats_colname"}

\* a call of dataframe_to_gpx with the given keywords: Python raises TypeError for
\* a keyword the function does not have; the parameters not passed keep their
\* defaults
CallDataframeToGpx(keywords, files, df, cols, output_file, compact) ==
    IF ~(keywords \subseteq DataframeToGpxParams)
    THEN [raised |-> "TypeError", df |-> df, points |-> <<>>, call |-> NoCall, fs |-> files,
          reads |-> {}]
    ELSE dataframe_to_gpx(files, df,
                          [a \in ColnameArgs |->
                              IF a \in keywords THEN cols[a] ELSE DefaultColnames[a]],
                          "", FALSE, output_file, compact)

\* pd.read_excel and pd.read_json: an empty cell or a null is read as NaN
read_excel(content) == read_csv(content)
read_json(content) == read_csv(content)

\* excel_to_gpx (lines 567-609)
excel_to_gpx(files, input_file, cols, output_file, compact) ==
    LET fail(e) == [raised |-> e, df |-> [n |-> 0, data |-> EmptyDict], points |-> <<>>,
                    call |-> NoCall, fs |-> files, reads |-> {}]
    IN IF ConverterInit(files, input_file) # "" THEN fail(ConverterInit(files, input_file))
       ELSE IF output_file = NoPath THEN fail("Exception")
       ELSE IF splitext(input_file) # ".xlsx" THEN fail("TypeError")
       ELSE [CallDataframeToGpx(ExcelKeywords, files, read_excel(files[input_file]), cols,
                                output_file, compact)
                EXCEPT !.reads = {input_file}]

\* json_to_gpx (lines 611-649)
json_to_gpx(files, input_file, cols, output_file, compact) ==
    LET fail(e) == [raised |-> e, df |-> [n |-> 0, data |-> EmptyDict], points |-> <<>>,
                    call |-> NoCall, fs |-> files, reads |-> {}]
    IN IF ConverterInit(files, input_file) # "" THEN fail(ConverterInit(files, input_file))
       ELSE IF output_file = NoPath THEN fail("Exception")
       ELSE IF splitext(input_file) # ".json" THEN fail("TypeError")
       ELSE [CallDataframeToGpx(JsonKeywords, files, read_json(files[input_file]), cols,
                                output_file, compact)
                EXCEPT !.reads = {input_file}]

\* f.replace('csv', 'gpx') (line 673) on a path whose only "csv" is its extension
ReplaceCsvByGpx(path) == [path EXCEPT !.ext = IF @ = ".csv" THEN ".gpx" ELSE @]

RECURSIVE ConvertEach(_, _, _, _)
\* lines 672-687: each CSV file is read and converted next to itself; an exception
\* ends the loop
ConvertEach(todo, done, cols, compact) ==
    IF todo = {} \/ done.raised # "" THEN done
    ELSE LET f == CHOOSE p \in todo : TRUE
             r == CallDataframeToGpx(JsonKeywords, done.fs, read_csv(done.fs[f]), cols,
                                     ReplaceCsvByGpx(f), compact)
         IN ConvertEach(todo \ {f}, [r EXCEPT !.reads = done.reads \cup {f}], cols, compact)

\* convert_multi_csv_to_gpx (lines 651-687): glob finds the .csv files of dirpath;
\* output_file is a parameter the body does not read
convert_multi_csv_to_gpx(files, cols, output_file, compact) ==
    ConvertEach({p \in DOMAIN files : p.ext = ".csv"},
                [raised |-> "", df |-> [n |-> 0, data |-> EmptyDict], points |-> <<>>,
                 call |-> NoCall, fs |-> files, reads |-> {}],
                cols, compact)

-----------------------------------------------------------------------------
(* The document-to-table entry points: gpx_to_dictionary, gpx_to_dataframe,
   gpx_to_numpy_array, gpx_to_csv, gpx_to_excel, gpx_to_json *)

\* the result of _gpx_to_dict when it was not called
NoFlat ==
    [raised |-> "", ext_tags |-> {}, extensions |-> EmptyDict, unpruned |-> EmptyDict,
     gpx_data |-> EmptyDict]

\* what an entry point gives: the exception raised, what _gpx_to_dict built, the
\* DataFrame made of it and the files
Exported(e, flat, df, files) == [raised |-> e, flat |-> flat, df |-> df, fs |-> files]

\* gpx_to_dictionary (lines 99-100): no check, the flag is passed on
gpx_to_dictionary(files, input_file, names, export_extensions) ==
    LET flat == _gpx_to_dict(files[input_file].doc, export_extensions)
    IN Exported(flat.raised, flat, [n |-> 0, data |-> EmptyDict], files)

\* gpx_to_dataframe (lines 102-123)
gpx_to_dataframe(files, input_file, names, export_extensions) ==
    LET flat == _gpx_to_dict(files[input_file].doc, export_extensions)
        none == [n |-> 0, data |-> EmptyDict]
    IN IF splitext(input_file) # ".gpx" THEN Exported("TypeError", NoFlat, none, files)
       ELSE IF names.lats_colname = "" \/ names.longs_colname = ""
       THEN Exported("TypeError", NoFlat, none, files)
       ELSE IF flat.raised # "" THEN Exported(flat.raised, flat, none, files)
       ELSE Exported("", flat, from_dict(flat.gpx_data), files)

\* DataFrame.to_numpy (line 127): the cells without the column names
to_numpy(df) == [shape |-> <<df.n, Cardinality(DOMAIN df.data)>>, columns |-> Range(df.data)]

\* gpx_to_numpy_array (lines 125-127): default column names, the flag is passed on
gpx_to_numpy_array(files, input_file, export_extensions) ==
    gpx_to_dataframe(files, input_file,
                     [lats_colname |-> "latitude", longs_colname |-> "longitude",
                      times_colname |-> "time", alts_colname |-> "altitude"],
                     export_extensions)

\* the three checks of the file-writing entry points (lines 139-147, 168-176,
\* 199-207): the exception raised, "" when they pass
ExportChecks(input_file, output_file, extension) ==
    IF splitext(input_file) # ".gpx" THEN "TypeError"
    ELSE IF output_file = NoPath THEN "Exception"
    ELSE IF splitext(output_file) # extension THEN "TypeError"
    ELSE ""

\* the export_extensions argument of gpx_to_csv's gpx_to_dataframe call (lines
\* 149-153): the call names none, so the default of line 102 (True) applies
CsvExportFlag(export_extensions) == TRUE

\* gpx_to_csv (lines 129-156)
gpx_to_csv(files, input_file, names, output_file, export_extensions) ==
    LET failed == ExportChecks(input_file, output_file, ".csv")
        r == gpx_to_dataframe(files, input_file, names, CsvExportFlag(export_extensions))
    IN IF failed # "" THEN Exported(failed, NoFlat, [n |-> 0, data |-> EmptyDict], files)
       ELSE IF r.raised # "" THEN r
       ELSE [r EXCEPT !.fs = WriteFile(files, output_file, to_csv(r.df))]

\* Series.dt.tz_localize(None) (line 185): the timestamp without its offset
tz_localize_None(v) ==
    IF v = NaT THEN NaT
    ELSE IF v.s = DocTime.s THEN [t |-> "Timestamp", s |-> "2025-06-15 15:24:20"]
    ELSE v

\* gpx_to_excel (lines 158-187): the time column is looked up under times_colname
gpx_to_excel(files, input_file, names, output_file, export_extensions) ==
    LET failed == ExportChecks(input_file, output_file, ".xlsx")
        r == gpx_to_dataframe(files, input_file, names, export_extensions)
        t == names.times_colname
        df == IF t = "" THEN r.df
              ELSE [r.df EXCEPT !.data[t] = [i \in 1..Len(@) |-> tz_localize_None(@[i])]]
    IN IF failed # "" THEN Exported(failed, NoFlat, [n |-> 0, data |-> EmptyDict], files)
       ELSE IF r.raised # "" THEN r
       ELSE IF t # "" /\ t \notin DOMAIN r.df.data THEN [r EXCEPT !.raised = "KeyError"]
       ELSE [r EXCEPT !.df = df,
                      !.fs = WriteFile(files, output_file, [kind |-> "xlsx", df |-> df])]

\* gpx_to_json (lines 189-219)
gpx_to_json(files, input_file, names, output_file, export_extensions) ==
    LET failed == ExportChecks(input_file, output_file, ".json")
        r == gpx_to_dataframe(files, input_file, names, export_extensions)
    IN IF failed # "" THEN Exported(failed, NoFlat, [n |-> 0, data |-> EmptyDict], files)
       ELSE IF r.raised # "" THEN r
       ELSE [r EXCEPT !.fs = WriteFile(files, output_file, [kind |-> "json", df |-> r.df])]

-----------------------------------------------------------------------------
(* Converter.spline_interpolation: the control sequence, the degree, the knot
   vector and the query range handed to scipy's splev *)

\* np.clip(a, a_min, a_max) is minimum(maximum(a, a_min), a_max)
clip_NoUpper(a, a_min, a_max) == IF a < a_min THEN a_min ELSE a

clip(a, a_min, a_max) ==
    LET lower == IF a < a_min THEN a_min ELSE a
    IN IF lower > a_max THEN a_max ELSE lower

\* (seq,) * k, concatenated: k whole copies, none when k <= 0
RECURSIVE Repeat(_, _)
Repeat(seq, k) == IF k <= 0 THEN <<>> ELSE seq \o Repeat(seq, k - 1)

\* np.arange(start, stop), empty when stop <= start
arange(start, stop) == [i \in 1..(stop - start) |-> start + i - 1]

\* the whole copies only, without the partial prefix
Extend_WholeOnly(cv, factor, fraction) == Repeat(cv, factor)

\* line 708: np.concatenate((cv,) * factor + (cv[:fraction],))
Extend(cv, factor, fraction) == Repeat(cv, factor) \o SubSeq(cv, 1, fraction)

\* an open knot vector whose increasing run stops one short
Knots_ShortRun(count, degree, periodic) ==
    IF periodic THEN arange(0 - degree, count + degree + degree - 1)
    ELSE Repeat(<<0>>, degree) \o arange(0, count - degree)
            \o Repeat(<<count - degree>>, degree)

\* a periodic knot vector that starts at zero
Knots_FromZero(count, degree, periodic) ==
    IF periodic THEN arange(0, count + degree + degree - 1)
    ELSE Repeat(<<0>>, degree) \o arange(0, count - degree + 1)
            \o Repeat(<<count - degree>>, degree)

\* lines 717-721: the knot vector
Knots(count, degree, periodic) ==
    IF periodic THEN arange(0 - degree, count + degree + degree - 1)
    ELSE Repeat(<<0>>, degree) \o arange(0, count - degree + 1)
            \o Repeat(<<count - degree>>, degree)

\* line 724: np.linspace(periodic, count - degree, n), by its arguments
linspace(start, stop, num) == [start |-> start, stop |-> stop, num |-> num]

NoSplev == [called |-> FALSE, u |-> linspace(0, 0, 0), kv |-> <<>>, cv |-> <<>>, degree |-> 0]

\* spline_interpolation (lines 690-728): the exception raised ("" when none), the
\* control sequence, count and degree after lines 706-714, and the call of splev
spline_interpolation(cv0, n, degree0, periodic) ==
    LET count0 == Len(cv0)
    IN IF periodic /\ count0 = 0
       THEN [raised |-> "ZeroDivisionError", cv |-> cv0, count |-> count0,
             degree |-> degree0, splev |-> NoSplev]
       ELSE
        LET factor == (count0 + degree0 + 1) \div (IF count0 = 0 THEN 1 ELSE count0)
            fraction == (count0 + degree0 + 1) % (IF count0 = 0 THEN 1 ELSE count0)
            cv == IF periodic THEN Extend(cv0, factor, fraction) ELSE cv0
            count == Len(cv)
            degree == IF periodic THEN clip(degree0, 1, degree0)
                      ELSE clip(degree0, 1, count - 1)
            kv == Knots(count, degree, periodic)
            u == linspace(IF periodic THEN 1 ELSE 0, count - degree, n)
        IN [raised |-> "", cv |-> cv, count |-> count, degree |-> degree,
            splev |-> [called |-> TRUE, u |-> u, kv |-> kv, cv |-> cv, degree |-> degree]]

-----------------------------------------------------------------------------
(* The documents flattened and rebuilt: _gpx_to_dict, then DataFrame.from_dict and
   dataframe_to_gpx with the same column names *)

NoTable == [n |-> 0, data |-> EmptyDict]
NoOut == [points |-> <<>>, call |-> NoCall, reads |-> {}]
NoFiles == [p \in {} |-> None]

OutGpx == Path("out", ".gpx")
InCsv == Path("in", ".csv")

\* the column names a caller of the document-to-table path passes: the defaults
\* (lines 45, 102) or names of its own
FlattenNames ==
    {[lats_colname |-> "latitude", longs_colname |-> "longitude",
      times_colname |-> "time", alts_colname |-> "altitude"],
     [lats_colname |-> "lat", longs_colname |-> "lon",
      times_colname |-> "t", alts_colname |-> "ele"]}

InitFlatten ==
    /\ pc = "start"
    /\ entry = ""
    /\ gpx \in Documents
    /\ opts \in {[export_extensions |-> e, names |-> nm] :
                    e \in BOOLEAN, nm \in FlattenNames}
    /\ ext_tags = {}
    /\ extensions = EmptyDict
    /\ unpruned = EmptyDict
    /\ gpx_data = EmptyDict
    /\ input_df = NoTable
    /\ orig_df = NoTable
    /\ out = NoOut
    /\ raised = ""
    /\ fs = NoFiles

\* a call of _gpx_to_dict on the document (through gpx_to_dictionary, lines 99-100)
GpxToDict ==
    /\ pc = "start"
    /\ LET r == _gpx_to_dict(gpx, opts.export_extensions)
       IN /\ ext_tags' = r.ext_tags
          /\ extensions' = r.extensions
          /\ unpruned' = r.unpruned
          /\ gpx_data' = r.gpx_data
          /\ raised' = r.raised
    /\ entry' = "_gpx_to_dict"
    /\ pc' = "flattened"
    /\ UNCHANGED <<gpx, opts, input_df, orig_df, out, fs>>

\* the column arguments of the call that converts the table back
RoundTripColnames ==
    [a \in ColnameArgs |->
        CASE a = "lats_colname" -> opts.names.lats_colname
          [] a = "longs_colname" -> opts.names.longs_colname
          [] a = "times_colname" -> opts.names.times_colname
          [] a = "alts_colname" -> opts.names.alts_colname
          [] OTHER -> ""]

\* the returned table is made a DataFrame (line 117) and converted back
TableToGpx ==
    /\ pc = "flattened"
    /\ raised = ""
    /\ LET df == from_dict(gpx_data)
           r == dataframe_to_gpx(fs, df, RoundTripColnames, "", FALSE, OutGpx, FALSE)
       IN /\ orig_df' = df
          /\ input_df' = r.df
          /\ out' = [points |-> r.points, call |-> r.call, reads |-> r.reads]
          /\ raised' = r.raised
          /\ fs' = r.fs
    /\ entry' = "dataframe_to_gpx"
    /\ pc' = "done"
    /\ UNCHANGED <<gpx, opts, ext_tags, extensions, unpruned, gpx_data>>

NextFlatten == GpxToDict \/ TableToGpx

SpecFlatten == InitFlatten /\ [][NextFlatten]_vars

-----------------------------------------------------------------------------
(* The tables converted: dataframe_to_gpx called directly, through csv_to_gpx, and
   through the WunderLINQ driver *)

\* the latitude of row i, different in every row
LatOf(i) == Float(ToString(i) \o ".5")
Lon == Float("2.5")
Ele == Float("5.0")

\* the columns of n cells drawn from a set; the cell "row" stands for LatOf(i)
Columns(n, cells) ==
    {[i \in 1..n |-> IF c[i] = Str("row") THEN LatOf(i) ELSE c[i]] : c \in [1..n -> cells]}

Fixed(n, v) == [i \in 1..n |-> v]

TableOpts(cols, format, utc, tzname, infile, outfile) ==
    [cols |-> cols, time_format |-> format, time_utc |-> utc, local_tz |-> tzname,
     input_file |-> infile, output_file |-> outfile]

\* the table and the arguments of a call are in place, and the table is also the
\* CSV file the call may read
Given(df, o) ==
    /\ input_df = df
    /\ orig_df = df
    /\ opts = o
    /\ fs = WriteFile(NoFiles, o.input_file, to_csv(df))

\* tables whose rows lack a latitude, a longitude or an elevation, under column
\* names that are or are not in the table
RowInputs ==
    \E n \in 0..MaxRows :
        \E lat \in Columns(n, {Str("row"), NaN}), lon \in Columns(n, {Lon, None}),
           ele \in Columns(n, {Ele, NaN}),
           la \in {"latitude", "lat"}, lo \in {"longitude", "lon"}, al \in {"", "altitude"} :
            Given([n |-> n, data |-> [latitude |-> lat, longitude |-> lon, altitude |-> ele]],
                  TableOpts([DefaultColnames EXCEPT !["lats_colname"] = la,
                                                    !["longs_colname"] = lo,
                                                    !["alts_colname"] = al],
                            "", FALSE, "Asia/Nicosia", InCsv, OutGpx))

\* tables with two telemetry columns, one catalogue field configured on a column
\* that is (c1) or is not (cx) in the table, and the speed field on c2 or not at all
TelemetryInputs ==
    \E n \in 1..MaxRows - 1 :
        \E c1 \in Columns(n, {Float("87.5"), PyInt("0"), NaN, None}),
           c2 \in Columns(n, {Float("60.0"), NaN}),
           a \in {TelemetryCatalogue[i].arg : i \in DOMAIN TelemetryCatalogue},
           nm \in {"c1", "cx"}, sp \in {"", "c2"} :
            Given([n |-> n, data |-> [latitude |-> [i \in 1..n |-> LatOf(i)],
                                      longitude |-> Fixed(n, Lon), c1 |-> c1, c2 |-> c2]],
                  TableOpts([[DefaultColnames EXCEPT !["speed_colname"] = sp] EXCEPT ![a] = nm],
                            "", FALSE, "Asia/Nicosia", InCsv, OutGpx))

\* tables with a time column, parsed with or without a format and the UTC flag
TimeInputs ==
    \E n \in 0..MaxRows - 1 :
        \E lat \in Columns(n, {Str("row"), NaN}),
           tm \in Columns(n, {IsoTime, WlinqLocal, BadTime, NaN}),
           tc \in {"", "time", "t"}, f \in {"", WlinqFormat, IsoFormat}, u \in BOOLEAN :
            Given([n |-> n, data |-> [latitude |-> lat, longitude |-> Fixed(n, Lon),
                                      time |-> tm]],
                  TableOpts([DefaultColnames EXCEPT !["times_colname"] = tc],
                            f, u, "Asia/Nicosia", InCsv, OutGpx))

\* WunderLINQ trip logs: all the columns of WLINQ_COLS, or all but one; the columns
\* not drawn are empty
WlinqInputs ==
    \E n \in 0..MaxRows - 1 :
        \E lat \in Columns(n, {Str("row"), NaN}),
           tm \in Columns(n, {WlinqLocal, IsoTime, BadTime, NaN}),
           et \in Columns(n, {Float("87.5"), NaN}),
           gone \in {"", WLINQ_COLS.rpm, WLINQ_COLS.lat},
           f \in {WlinqFormat, IsoFormat}, u \in BOOLEAN,
           z \in {"Asia/Nicosia", "Mars/Olympus"} :
            Given([n |-> n,
                   data |-> [h \in Range(WLINQ_COLS) \ {gone} |->
                                CASE h = WLINQ_COLS.lat -> lat
                                  [] h = WLINQ_COLS.lon -> Fixed(n, Lon)
                                  [] h = WLINQ_COLS.ele -> Fixed(n, Ele)
                                  [] h = WLINQ_COLS.time -> tm
                                  [] h = WLINQ_COLS.engine_temp -> et
                                  [] OTHER -> Fixed(n, NaN)]],
                  TableOpts(WlinqColnames, f, u, z, InCsv, OutGpx))

\* one good row, with and without an output path and with the wrong extensions
PathInputs ==
    \E i \in {InCsv, Path("in", ".xlsx")}, o \in {NoPath, OutGpx, Path("out", ".csv")} :
        Given([n |-> 1, data |-> [latitude |-> <<LatOf(1)>>, longitude |-> <<Lon>>]],
              TableOpts(DefaultColnames, "", FALSE, "Asia/Nicosia", i, o))

InitTable ==
    /\ pc = "start"
    /\ entry = ""
    /\ gpx = <<>>
    /\ ext_tags = {}
    /\ extensions = EmptyDict
    /\ unpruned = EmptyDict
    /\ gpx_data = EmptyDict
    /\ out = NoOut
    /\ raised = ""
    /\ (RowInputs \/ TelemetryInputs \/ TimeInputs \/ WlinqInputs \/ PathInputs)

Returned(r, name) ==
    /\ input_df' = r.df
    /\ out' = [points |-> r.points, call |-> r.call, reads |-> r.reads]
    /\ raised' = r.raised
    /\ fs' = r.fs
    /\ entry' = name
    /\ pc' = "done"
    /\ UNCHANGED <<gpx, opts, ext_tags, extensions, unpruned, gpx_data, orig_df>>

\* Converter.dataframe_to_gpx(input_df, ..., time_format, time_utc, output_file)
DataframeToGpx ==
    /\ pc = "start"
    /\ \E compact \in BOOLEAN :
        Returned(dataframe_to_gpx(fs, input_df, opts.cols, opts.time_format, opts.time_utc,
                                  opts.output_file, compact),
                 "dataframe_to_gpx")

\* Converter(input_file).csv_to_gpx(..., time_format, time_utc, output_file)
CsvToGpx ==
    /\ pc = "start"
    /\ \E compact \in BOOLEAN :
        Returned(csv_to_gpx(fs, opts.input_file, opts.cols, opts.time_format, opts.time_utc,
                            opts.output_file, compact),
                 "csv_to_gpx")

\* the WunderlinqToGpxConfig of the call (lines 63-75); time_format has a default
WunderlinqConfig ==
    [csv_path |-> opts.input_file, output_gpx_path |-> opts.output_file,
     time_format |-> IF opts.time_format = "" THEN WlinqFormat ELSE opts.time_format,
     time_utc |-> opts.time_utc, local_tz |-> opts.local_tz]

\* convert_wunderlinq_csv_to_gpx(cfg)
ConvertWunderlinq ==
    /\ pc = "start"
    /\ \E compact \in BOOLEAN, fault \in IOFaults :
        Returned(convert_wunderlinq_csv_to_gpx(fs, WunderlinqConfig, compact, fault),
                 "convert_wunderlinq_csv_to_gpx")

NextTable == DataframeToGpx \/ CsvToGpx \/ ConvertWunderlinq

SpecTable == InitTable /\ [][NextTable]_vars

-----------------------------------------------------------------------------
(* The wrappers called: csv_to_gpx, excel_to_gpx, json_to_gpx and
   convert_multi_csv_to_gpx on a file of one of the three kinds *)

InXlsx == Path("in", ".xlsx")
InJson == Path("in", ".json")

\* a table as the file of its kind
FileOf(path, df) ==
    CASE path.ext = ".xlsx" -> [kind |-> "xlsx", df |-> df]
      [] path.ext = ".json" -> [kind |-> "json", df |-> df]
      [] OTHER -> to_csv(df)

InitWrappers ==
    /\ pc = "start"
    /\ entry = ""
    /\ gpx = <<>>
    /\ ext_tags = {}
    /\ extensions = EmptyDict
    /\ unpruned = EmptyDict
    /\ gpx_data = EmptyDict
    /\ out = NoOut
    /\ raised = ""
    /\ \E n \in 0..MaxRows :
        \E lat \in Columns(n, {Str("row"), NaN}), lon \in Columns(n, {Lon, None}),
           la \in {"latitude", "lat"}, i \in {InCsv, InXlsx, InJson},
           o \in {NoPath, OutGpx, Path("out", ".csv")} :
            LET df == [n |-> n, data |-> [latitude |-> lat, longitude |-> lon,
                                          altitude |-> Fixed(n, Ele)]]
            IN /\ input_df = df
               /\ orig_df = df
               /\ opts = TableOpts([DefaultColnames EXCEPT !["lats_colname"] = la,
                                                           !["alts_colname"] = "altitude"],
                                   "", FALSE, "Asia/Nicosia", i, o)
               /\ fs = WriteFile(NoFiles, i, FileOf(i, df))

\* Converter(input_file).excel_to_gpx(..., output_file)
ExcelToGpx ==
    /\ pc = "start"
    /\ \E compact \in BOOLEAN :
        Returned(excel_to_gpx(fs, opts.input_file, opts.cols, opts.output_file, compact),
                 "excel_to_gpx")

\* Converter(input_file).json_to_gpx(..., output_file)
JsonToGpx ==
    /\ pc = "start"
    /\ \E compact \in BOOLEAN :
        Returned(json_to_gpx(fs, opts.input_file, opts.cols, opts.output_file, compact),
                 "json_to_gpx")

\* Converter.convert_multi_csv_to_gpx(dirpath, ..., output_file)
ConvertMultiCsvToGpx ==
    /\ pc = "start"
    /\ \E compact \in BOOLEAN :
        Returned(convert_multi_csv_to_gpx(fs, opts.cols, opts.output_file, compact),
                 "convert_multi_csv_to_gpx")

NextWrappers == CsvToGpx \/ ExcelToGpx \/ JsonToGpx \/ ConvertMultiCsvToGpx

SpecWrappers == InitWrappers /\ [][NextWrappers]_vars

-----------------------------------------------------------------------------
(* The documents exported: the six document-to-table entry points on a GPX file *)

InGpx == Path("in", ".gpx")

ExportDocuments == {d \in Documents : Len(AllPoints(d)) <= MaxExportPoints}

\* a document in a file, under a .gpx name or not, and the arguments of a call
InitExport ==
    /\ pc = "start"
    /\ entry = ""
    /\ gpx \in ExportDocuments
    /\ opts \in {[export_extensions |-> e, names |-> nm, input_file |-> i, output_file |-> o] :
                    e \in BOOLEAN, nm \in FlattenNames, i \in {InGpx, InCsv},
                    o \in {NoPath, Path("out", ".csv"), Path("out", ".xlsx"),
                           Path("out", ".json")}}
    /\ ext_tags = {}
    /\ extensions = EmptyDict
    /\ unpruned = EmptyDict
    /\ gpx_data = EmptyDict
    /\ input_df = NoTable
    /\ orig_df = NoTable
    /\ out = [table |-> NoTable]
    /\ raised = ""
    /\ fs = WriteFile(NoFiles, opts.input_file, [kind |-> "gpx", doc |-> gpx])

ExportReturned(r, name) ==
    /\ ext_tags' = r.flat.ext_tags
    /\ extensions' = r.flat.extensions
    /\ unpruned' = r.flat.unpruned
    /\ gpx_data' = r.flat.gpx_data
    /\ out' = [table |-> r.df]
    /\ raised' = r.raised
    /\ fs' = r.fs
    /\ entry' = name
    /\ pc' = "done"
    /\ UNCHANGED <<gpx, opts, input_df, orig_df>>

GpxToDictionary ==
    /\ pc = "start"
    /\ ExportReturned(gpx_to_dictionary(fs, opts.input_file, opts.names,
                                        opts.export_extensions),
                      "gpx_to_dictionary")

GpxToDataframe ==
    /\ pc = "start"
    /\ ExportReturned(gpx_to_dataframe(fs, opts.input_file, opts.names,
                                       opts.export_extensions),
                      "gpx_to_dataframe")

GpxToNumpyArray ==
    /\ pc = "start"
    /\ ExportReturned(gpx_to_numpy_array(fs, opts.input_file, opts.export_extensions),
                      "gpx_to_numpy_array")

GpxToCsv ==
    /\ pc = "start"
    /\ ExportReturned(gpx_to_csv(fs, opts.input_file, opts.names, opts.output_file,
                                 opts.export_extensions),
                      "gpx_to_csv")

GpxToExcel ==
    /\ pc = "start"
    /\ ExportReturned(gpx_to_excel(fs, opts.input_file, opts.names, opts.output_file,
                                   opts.export_extensions),
                      "gpx_to_excel")

GpxToJson ==
    /\ pc = "start"
    /\ ExportReturned(gpx_to_json(fs, opts.input_file, opts.names, opts.output_file,
                                  opts.export_extensions),
                      "gpx_to_json")

NextExport ==
    GpxToDictionary \/ GpxToDataframe \/ GpxToNumpyArray \/ GpxToCsv \/ GpxToExcel \/ GpxToJson

SpecExport == InitExport /\ [][NextExport]_vars

-----------------------------------------------------------------------------
(* The curves resampled: spline_interpolation on a control sequence *)

ControlPoints == {"a", "b"}

NoSpline == [cv |-> <<>>, count |-> 0, degree |-> 0, splev |-> NoSplev]

InitSpline ==
    /\ pc = "start"
    /\ entry = ""
    /\ gpx = <<>>
    /\ \E c \in 0..MaxCount :
        opts \in {[cv |-> cv, n |-> n, degree |-> d, periodic |-> p] :
                    cv \in [1..c -> ControlPoints], n \in 1..MaxSamples,
                    d \in -1..MaxDegree, p \in BOOLEAN}
    /\ ext_tags = {}
    /\ extensions = EmptyDict
    /\ unpruned = EmptyDict
    /\ gpx_data = EmptyDict
    /\ input_df = NoTable
    /\ orig_df = NoTable
    /\ out = NoSpline
    /\ raised = ""
    /\ fs = NoFiles

\* Converter.spline_interpolation(cv, n, degree, periodic)
SplineInterpolation ==
    /\ pc = "start"
    /\ LET r == spline_interpolation(opts.cv, opts.n, opts.degree, opts.periodic)
       IN /\ out' = [cv |-> r.cv, count |-> r.count, degree |-> r.degree, splev |-> r.splev]
          /\ raised' = r.raised
    /\ entry' = "spline_interpolation"
    /\ pc' = "done"
    /\ UNCHANGED <<gpx, opts, ext_tags, extensions, unpruned, gpx_data, input_df, orig_df, fs>>

NextSpline == SplineInterpolation

SpecSpline == InitSpline /\ [][NextSpline]_vars

-----------------------------------------------------------------------------
(* What the claims about the document-to-table path speak of, stated on the
   document itself *)

\* the positions <<track, segment, point>> of the points of the document
Positions ==
    {<<t, g, p>> \in (1..MaxPoints + 1) \X (1..MaxPoints + 1) \X (1..MaxPoints + 1) :
        t <= Len(gpx) /\ g <= Len(gpx[t]) /\ p <= Len(gpx[t][g])}

PointAtPos(pos) == gpx[pos[1]][pos[2]][pos[3]]

Before(a, b) ==
    \/ a[1] < b[1]
    \/ a[1] = b[1] /\ a[2] < b[2]
    \/ a[1] = b[1] /\ a[2] = b[2] /\ a[3] < b[3]

\* the row of a point: its place in track -> segment -> point order
RowOf(pos) == Cardinality({q \in Positions : Before(q, pos)}) + 1

\* the entries of a point that carry a tag, by their place in the point's list
EntriesWith(point, tag) ==
    {e \in 1..Len(point.extensions) : point.extensions[e].tag = tag}

\* the text of the last entry of the point with the tag, None when it has none
LastText(point, tag) ==
    IF EntriesWith(point, tag) = {} THEN None
    ELSE point.extensions[CHOOSE e \in EntriesWith(point, tag) :
                            \A o \in EntriesWith(point, tag) : o <= e].text

Flattened == pc \in {"flattened", "done"} /\ entry # "" /\ HasFirstPoint(gpx)

DirectTags ==
    {PointAtPos(pos).extensions[e].tag :
        <<pos, e>> \in {<<q, i>> \in Positions \X (1..MaxPoints + 1) :
                            i <= Len(PointAtPos(q).extensions)}}

\* C4: tag-set completeness. With export_extensions true the tag set of the first
\* pass is exactly the set of the tags of all entries of all points of all tracks
\* and segments, and the second pass builds one column for each of them.
C4_TagSetComplete ==
    Flattened /\ opts.export_extensions =>
        /\ ext_tags = DirectTags
        /\ DOMAIN extensions = DirectTags

\* two tracks whose points carry different tags: both tags were collected
C4_Witness ==
    /\ Flattened
    /\ opts.export_extensions
    /\ Len(gpx) = 2
    /\ \E a, b \in Positions :
        /\ a[1] = 1
        /\ b[1] = 2
        /\ Len(PointAtPos(a).extensions) = 1
        /\ Len(PointAtPos(b).extensions) = 1
        /\ PointAtPos(a).extensions[1].tag # PointAtPos(b).extensions[1].tag
    /\ ext_tags = Tags

\* null, empty string, zero or false
Falsy == {None, Str(""), PyInt("0"), Float("0.0"), [t |-> "bool", s |-> "False"]}

AllFalsy(col) == \A i \in 1..Len(col) : col[i] \in Falsy

\* C5: pruning correctness. A column of the table is absent from the returned
\* table exactly when all its cells are falsy, and a retained column keeps all
\* its cells.
C5_Pruning ==
    Flattened =>
        /\ DOMAIN gpx_data = {c \in DOMAIN unpruned : ~AllFalsy(unpruned[c])}
        /\ \A c \in DOMAIN gpx_data : gpx_data[c] = unpruned[c]

\* satellites is 4 for one point and null for the other and is kept with those
\* cells, while a column of falsy cells only is gone
C5_Witness ==
    /\ Flattened
    /\ "satellites" \in DOMAIN gpx_data
    /\ gpx_data["satellites"] = <<PyInt("4"), None>>
    /\ "altitude" \notin DOMAIN gpx_data
    /\ "time" \notin DOMAIN gpx_data

\* the column of the table that holds a native attribute
ColumnOfItem(item) == IF item = "elevation" THEN "altitude" ELSE item

\* C6: no column is partially missing. Every column built (standard and
\* extension) has one cell per point of the document, and the cell in row i is
\* the one of the i-th point in track -> segment -> point order: the native
\* attribute for a standard column, a text of one of that point's entries (null
\* when it has none with the tag) for an extension column.
C6_ColumnsAligned ==
    Flattened =>
        /\ \A c \in DOMAIN unpruned : Len(unpruned[c]) = Cardinality(Positions)
        /\ \A T \in DOMAIN extensions : Len(extensions[T]) = Cardinality(Positions)
        /\ \A pos \in Positions :
            /\ \A i \in 1..Len(items) :
                items[i] \notin ext_tags =>
                    unpruned[ColumnOfItem(items[i])][RowOf(pos)] = PointAtPos(pos)[items[i]]
            /\ \A T \in DOMAIN extensions :
                extensions[T][RowOf(pos)] \in
                    IF EntriesWith(PointAtPos(pos), T) = {} THEN {None}
                    ELSE {PointAtPos(pos).extensions[e].text :
                            e \in EntriesWith(PointAtPos(pos), T)}

\* two points in two segments, only the second with an entry: the tag's column has
\* a null for the first point and the text for the second
C6_Witness ==
    /\ Flattened
    /\ Cardinality(Positions) = 2
    /\ \E a, b \in Positions :
        /\ Before(a, b)
        /\ a[2] # b[2]
        /\ PointAtPos(a).extensions = <<>>
        /\ PointAtPos(b).extensions = <<[tag |-> "hr", text |-> Str("1")]>>
    /\ "hr" \in DOMAIN extensions
    /\ extensions["hr"] = <<None, Str("1")>>

\* the rows of the table that the conversion back does not drop: those with a
\* latitude and a longitude under the column names of the call
KeptRows ==
    {i \in 1..orig_df.n :
        /\ RoundTripColnames["lats_colname"] \in DOMAIN orig_df.data
        /\ RoundTripColnames["longs_colname"] \in DOMAIN orig_df.data
        /\ ~IsNull(orig_df.data[RoundTripColnames["lats_colname"]][i])
        /\ ~IsNull(orig_df.data[RoundTripColnames["longs_colname"]][i])}

\* C7: round trip of the standard fields. Flattening a document and converting
\* the table back with the same column names gives, for every row that was not
\* dropped and in the original order, a point with the latitude, the longitude
\* and the elevation of the original point.
C7_RoundTrip ==
    pc = "done" /\ raised = "" =>
        /\ Len(out.points) = Cardinality(KeptRows)
        /\ \A pos \in Positions :
            RowOf(pos) \in KeptRows =>
                LET k == Cardinality({i \in KeptRows : i <= RowOf(pos)})
                IN /\ out.points[k].latitude = PointAtPos(pos).latitude
                   /\ out.points[k].longitude = PointAtPos(pos).longitude
                   /\ out.points[k].elevation = PointAtPos(pos).elevation

-----------------------------------------------------------------------------
(* What the claims about empty documents and about the column names of the
   flattened table speak of *)

\* the native attributes a caller can name a column for, with the argument that
\* names it
NamedAttributes ==
    <<[item |-> "latitude", arg |-> "lats_colname"],
      [item |-> "longitude", arg |-> "longs_colname"],
      [item |-> "time", arg |-> "times_colname"],
      [item |-> "elevation", arg |-> "alts_colname"]>>

\* the values of a native attribute over the points of the document, in order
AttributeValues(item) ==
    [i \in 1..Len(AllPoints(gpx)) |-> AllPoints(gpx)[i][item]]

\* C14: flattening a document without points returns normally, with a table of
\* zero rows that has no column besides the standard ones.
C14_EmptyDocumentFlattens ==
    pc = "flattened" /\ AllPoints(gpx) = <<>> =>
        /\ raised = ""
        /\ \A c \in DOMAIN gpx_data :
            /\ c \in {"latitude", "longitude", "time", "altitude"}
            /\ gpx_data[c] = <<>>

\* C15: the latitude, longitude, time and altitude columns of the flattened table
\* appear under the names the caller passed as lats_colname, longs_colname,
\* times_colname and alts_colname.
C15_ColumnsNamedAsConfigured ==
    pc = "flattened" /\ raised = "" =>
        \A k \in DOMAIN NamedAttributes :
            LET name == opts.names[NamedAttributes[k].arg]
                values == AttributeValues(NamedAttributes[k].item)
            IN any(values) => name \in DOMAIN gpx_data /\ gpx_data[name] = values

\* C24: whatever the tags of the extension entries, a standard attribute name
\* among them included, the standard columns of the flattened table hold the
\* native attribute of each point, and the altitude column the native elevations.
C24_StandardColumnsNative ==
    pc = "flattened" /\ raised = "" =>
        \A i \in DOMAIN items :
            /\ ColumnOfItem(items[i]) \in DOMAIN unpruned
            /\ unpruned[ColumnOfItem(items[i])] = AttributeValues(items[i])

-----------------------------------------------------------------------------
(* What the claims about the table-to-document path speak of, stated on the
   caller's table *)

Driver == "convert_wunderlinq_csv_to_gpx"

\* the column arguments in force: the driver passes its own (lines 190-234)
UsedColnames == IF entry = Driver THEN WlinqColnames ELSE opts.cols

\* the cell of the caller's table under a column name; a column that is not
\* configured or not in the table has no cells
Cell(col, i) ==
    IF col = "" \/ col \notin DOMAIN orig_df.data THEN None ELSE orig_df.data[col][i]

Missing(v) == v \in {None, NaN}

Converted == pc = "done" /\ entry # "" /\ raised = ""

\* the rows with both a latitude and a longitude
ValidRows ==
    {i \in 1..orig_df.n :
        /\ ~Missing(Cell(UsedColnames["lats_colname"], i))
        /\ ~Missing(Cell(UsedColnames["longs_colname"], i))}

\* the output point of a valid row, if the points are in row order
PointOfRow(i) == out.points[Cardinality({j \in ValidRows : j <= i})]

\* C1: dataframe_to_gpx emits exactly one point per row whose latitude and
\* longitude are both non-null, none for the other rows, and the points are in
\* the order of their rows.
C1_ValidRowsInOrder ==
    Converted =>
        /\ Len(out.points) = Cardinality(ValidRows)
        /\ \A i \in ValidRows :
            /\ PointOfRow(i).latitude = Cell(UsedColnames["lats_colname"], i)
            /\ PointOfRow(i).longitude = Cell(UsedColnames["longs_colname"], i)

\* three rows, the second without latitude: two points, rows 1 and 3 in that order
C1_Witness ==
    /\ Converted
    /\ entry = "dataframe_to_gpx"
    /\ opts.cols["lats_colname"] = "latitude"
    /\ orig_df.n = 3
    /\ orig_df.data["latitude"] = <<LatOf(1), NaN, LatOf(3)>>
    /\ Len(out.points) = 2
    /\ out.points[1].latitude = LatOf(1)
    /\ out.points[2].latitude = LatOf(3)

NsTag(tag) == "{" \o WLINQ_NS \o "}" \o tag

\* the entries of a point that carry the tag of a catalogue field
FieldEntries(point, field) ==
    {e \in 1..Len(point.extensions) : point.extensions[e].tag = NsTag(field.tag)}

\* C2: for every emitted point and every catalogue field, the point has an entry
\* with the field's tag, with the stringified cell as its text, exactly when the
\* field's source column is configured, is in the table and is non-null in the
\* row; otherwise it has no entry with that tag at all.
C2_CatalogueMapping ==
    Converted =>
        \A i \in ValidRows :
            \A k \in DOMAIN TelemetryCatalogue :
                LET field == TelemetryCatalogue[k]
                    v == Cell(UsedColnames[field.arg], i)
                    es == FieldEntries(PointOfRow(i), field)
                IN IF Missing(v) THEN es = {}
                   ELSE /\ Cardinality(es) = 1
                        /\ \A e \in es : PointOfRow(i).extensions[e].text = Str(v.s)

\* engine_temp is configured on a column that is 87.5 in row 1 and empty in row 2:
\* the first point has engine_temp_c = "87.5", the second has no such entry
C2_Witness ==
    /\ Converted
    /\ entry = "dataframe_to_gpx"
    /\ opts.cols["engine_temp_colname"] = "c1"
    /\ opts.cols["gear_colname"] = ""
    /\ orig_df.n = 2
    /\ "c1" \in DOMAIN orig_df.data
    /\ orig_df.data["c1"] = <<Float("87.5"), NaN>>
    /\ Len(out.points) = 2
    /\ \E e \in 1..Len(out.points[1].extensions) :
        out.points[1].extensions[e] =
            [tag |-> NsTag("engine_temp_c"), text |-> Str("87.5")]
    /\ \A e \in 1..Len(out.points[2].extensions) :
        out.points[2].extensions[e].tag # NsTag("engine_temp_c")

\* the rows whose time does not parse under any format
BadRows == {i \in 1..orig_df.n : Cell(UsedColnames["times_colname"], i) = BadTime}

\* nothing but the time column is wrong with the call
OtherwiseValid ==
    /\ opts.input_file = InCsv
    /\ opts.output_file = OutGpx
    /\ entry = Driver =>
        /\ Range(WLINQ_COLS) \subseteq DOMAIN orig_df.data
        /\ opts.local_tz = "Asia/Nicosia"

\* the rows with an unparsable time still give their points, without a time, and
\* the other rows give theirs
BadTimesTolerated ==
    /\ raised = ""
    /\ Len(out.points) = Cardinality(ValidRows)
    /\ \A i \in BadRows \cap ValidRows : PointOfRow(i).time = None

GivenFormat ==
    IF entry # Driver THEN opts.time_format
    ELSE IF opts.time_utc THEN WlinqFormat ELSE WunderlinqConfig.time_format

\* C9: the time column is parsed with exactly the format and the UTC setting the
\* caller gave to the entry point; the inferring parse is used only when no format
\* was given.
C9_FormatHonoured ==
    pc = "done" /\ out.call.called =>
        /\ out.call.format = GivenFormat
        /\ out.call.utc = opts.time_utc

\* a required source column is not in the table
RequiredAbsent ==
    IF entry = Driver THEN ~(Range(WLINQ_COLS) \subseteq DOMAIN orig_df.data)
    ELSE \/ opts.cols["lats_colname"] \notin DOMAIN orig_df.data
         \/ opts.cols["longs_colname"] \notin DOMAIN orig_df.data

\* C10: when a required source column is absent the conversion fails with an
\* error, emits no point and writes no output document.
C10_SchemaFailFast ==
    pc = "done" /\ entry # "" /\ RequiredAbsent =>
        /\ raised # ""
        /\ out.points = <<>>
        /\ opts.output_file \notin DOMAIN fs

-----------------------------------------------------------------------------
(* What the claim about the export_extensions flag speaks of *)

StandardColumns == {ColumnOfItem(items[i]) : i \in DOMAIN items}

\* C16: every document-to-table entry point honours export_extensions: when it is
\* false the table has no column besides the standard ones, and when it is true
\* the table before pruning has a column for every tag of the document (under the
\* name altitude for a tag that the rename of elevation moves).
C16_ExportFlagHonoured ==
    pc = "done" /\ raised = "" =>
        IF opts.export_extensions
        THEN \A tag \in DirectTags : ColumnOfItem(tag) \in DOMAIN unpruned
        ELSE /\ DOMAIN unpruned \subseteq StandardColumns
             /\ DOMAIN gpx_data \subseteq StandardColumns
             /\ DOMAIN out.table.data \subseteq StandardColumns

-----------------------------------------------------------------------------
(* What the claim about configuration errors speaks of *)

\* the call has no output path, or an input or output file of the wrong kind
ConfigurationError ==
    \/ opts.output_file = NoPath
    \/ splitext(opts.output_file) # ".gpx"
    \/ entry = "csv_to_gpx" /\ splitext(opts.input_file) # ".csv"

\* C11: a missing output path, a wrong input-file extension or a wrong output-file
\* extension is rejected with an error, before the input is read and before
\* anything is written.
C11_ConfigurationFailFast ==
    pc = "done" /\ entry \in {"dataframe_to_gpx", "csv_to_gpx"} /\ ConfigurationError =>
        /\ raised # ""
        /\ out.reads = {}
        /\ fs = WriteFile(NoFiles, opts.input_file, to_csv(orig_df))

-----------------------------------------------------------------------------
(* What the claim about the driver's temporary file speaks of *)

\* C23: when convert_wunderlinq_csv_to_gpx has returned or raised, with time_utc
\* set or not, no temporary UTC CSV file is on disk.
C23_TempFileRemoved ==
    pc = "done" /\ entry = Driver => TempCsv \notin DOMAIN fs

-----------------------------------------------------------------------------
(* What the claims about the order of the entries, the mirrored altitude and the
   caller's table speak of *)

CatalogueTags == {NsTag(TelemetryCatalogue[k].tag) : k \in DOMAIN TelemetryCatalogue}

\* the place of a tag in the catalogue
CatalogueIndex(tag) ==
    CHOOSE k \in DOMAIN TelemetryCatalogue : NsTag(TelemetryCatalogue[k].tag) = tag

\* C17: the tags of the extension list of every emitted point form a subsequence
\* of the catalogue: every tag is a catalogue tag and the tags appear in the order
\* the catalogue declares them.
C17_CatalogueOrder ==
    Converted =>
        \A i \in 1..Len(out.points) :
            LET exts == out.points[i].extensions
            IN /\ \A e \in 1..Len(exts) : exts[e].tag \in CatalogueTags
               /\ \A e1, e2 \in 1..Len(exts) :
                    e1 < e2 => CatalogueIndex(exts[e1].tag) < CatalogueIndex(exts[e2].tag)

\* a row with a speed and an engine temperature: speed_kmh comes first
C17_Witness ==
    /\ Converted
    /\ entry = "dataframe_to_gpx"
    /\ opts.cols["speed_colname"] = "c2"
    /\ opts.cols["engine_temp_colname"] = "c1"
    /\ Len(out.points) >= 1
    /\ out.points[1].extensions =
        <<[tag |-> NsTag("speed_kmh"), text |-> Str("60.0")],
          [tag |-> NsTag("engine_temp_c"), text |-> Str("87.5")]>>

\* C18: an emitted point has an altitude_m entry exactly when its elevation is set,
\* which is exactly when the elevation column is configured, in the table and
\* non-null in the row; the text of the entry is that elevation, stringified.
C18_AltitudeMirrored ==
    Converted =>
        \A i \in ValidRows :
            LET p == PointOfRow(i)
                v == Cell(UsedColnames["alts_colname"], i)
                es == {e \in 1..Len(p.extensions) : p.extensions[e].tag = NsTag("altitude_m")}
            IN /\ p.elevation # None <=> ~Missing(v)
               /\ p.elevation # None => p.elevation = v
               /\ es # {} <=> p.elevation # None
               /\ Cardinality(es) <= 1
               /\ \A e \in es : p.extensions[e].text = Str(str(p.elevation))

\* two rows, the first with an elevation and the second without: the first point
\* has the elevation and altitude_m = "5.0", the second has neither
C18_Witness ==
    /\ Converted
    /\ entry = "dataframe_to_gpx"
    /\ opts.cols["alts_colname"] = "altitude"
    /\ orig_df.n = 2
    /\ "altitude" \in DOMAIN orig_df.data
    /\ orig_df.data["altitude"] = <<Ele, NaN>>
    /\ Len(out.points) = 2
    /\ out.points[1].elevation = Ele
    /\ out.points[1].extensions = <<[tag |-> NsTag("altitude_m"), text |-> Str("5.0")]>>
    /\ out.points[2].elevation = None
    /\ out.points[2].extensions = <<>>

\* C19: after dataframe_to_gpx returns or raises, every cell of every column of
\* the caller's table, the time column included, has the value it had before.
C19_InputUnchanged ==
    pc = "done" /\ entry = "dataframe_to_gpx" => input_df = orig_df

-----------------------------------------------------------------------------
(* What the claims about the curve resampler speak of *)

Resampled == pc = "done" /\ entry = "spline_interpolation"

\* the requested degree brought into [1, count - 1]
ClampedOpen(d, count) == IF d < 1 THEN 1 ELSE IF d > count - 1 THEN count - 1 ELSE d

\* C12: for an open curve of two or more control points the call is not rejected
\* and the degree of the knot vector and of the evaluator call is the requested
\* degree clamped into [1, count - 1].
C12_OpenDegreeClamped ==
    Resampled /\ ~opts.periodic /\ Len(opts.cv) >= 2 =>
        LET k == ClampedOpen(opts.degree, Len(opts.cv))
        IN /\ raised = ""
           /\ out.splev.called
           /\ out.splev.degree = k
           /\ out.splev.kv = [i \in 1..(Len(opts.cv) + k + 1) |->
                                IF i <= k THEN 0
                                ELSE IF i > Len(opts.cv) + 1 THEN Len(opts.cv) - k
                                ELSE i - k - 1]

\* three control points and degree 5, open: evaluated at degree 2
C12_Witness ==
    /\ Resampled
    /\ ~opts.periodic
    /\ Len(opts.cv) = 3
    /\ opts.degree = 5
    /\ raised = ""
    /\ out.splev.called
    /\ out.splev.degree = 2
    /\ out.splev.kv = <<0, 0, 0, 1, 1, 1>>

\* C13: a degree below 1 after clamping, or fewer than two control points, makes
\* the call fail with an error, and the evaluator is not invoked.
C13_CallerErrorsRejected ==
    Resampled /\ (Len(opts.cv) < 2 \/ out.degree < 1) =>
        raised # "" /\ ~out.splev.called

\* C20: for a closed curve of c >= 1 control points and degree d >= 1 the extended
\* control sequence has c + d + 1 points and is the original repeated cyclically.
C20_PeriodicExtension ==
    Resampled /\ opts.periodic /\ Len(opts.cv) >= 1 /\ opts.degree >= 1 =>
        LET c == Len(opts.cv)
        IN /\ raised = ""
           /\ Len(out.cv) = c + opts.degree + 1
           /\ \A i \in 0..(Len(out.cv) - 1) : out.cv[i + 1] = opts.cv[(i % c) + 1]

\* a, b closed at degree 2: a, b, a, b, a
C20_Witness ==
    /\ Resampled
    /\ opts.periodic
    /\ opts.cv = <<"a", "b">>
    /\ opts.degree = 2
    /\ out.cv = <<"a", "b", "a", "b", "a">>

\* C21: the knot vector of an open curve of two or more control points, with
\* clamped degree k, is k zeros, the integers 0..count-k and k copies of count-k:
\* it never decreases, has count + k + 1 entries, starts with k + 1 zeros, ends
\* with k + 1 copies of count - k, and count - k is the end of the sampling range
\* [0, count - k].
C21_OpenKnotVector ==
    Resampled /\ ~opts.periodic /\ Len(opts.cv) >= 2 =>
        LET count == Len(opts.cv)
            k == out.degree
            kv == out.splev.kv
        IN /\ Len(kv) = count + k + 1
           /\ \A i \in 1..(k + 1) : kv[i] = 0
           /\ \A i \in (k + 1)..(count + 1) : kv[i] = i - k - 1
           /\ \A i \in (count + 1)..(count + k + 1) : kv[i] = count - k
           /\ \A i \in 1..(Len(kv) - 1) : kv[i] <= kv[i + 1]
           /\ out.splev.u.start = 0
           /\ out.splev.u.stop = count - k

\* three control points at degree 1: knots 0, 0, 1, 2, 2 and the range [0, 2]
C21_Witness ==
    /\ Resampled
    /\ ~opts.periodic
    /\ Len(opts.cv) = 3
    /\ opts.degree = 1
    /\ out.splev.kv = <<0, 0, 1, 2, 2>>
    /\ out.splev.u.stop = 2

\* the knot vector is consecutive integers that start below zero
ConsecutiveFromNegative(kv) ==
    /\ Len(kv) >= 1
    /\ kv[1] < 0
    /\ \A i \in 1..(Len(kv) - 1) : kv[i + 1] = kv[i] + 1

\* C22: the knot vector of a closed curve (count >= 1, degree >= 1) is made of
\* consecutive integers starting at a negative offset, and its length is the
\* length of the extended control sequence plus the degree.
C22_PeriodicKnotLength ==
    Resampled /\ opts.periodic /\ Len(opts.cv) >= 1 /\ opts.degree >= 1 =>
        /\ ConsecutiveFromNegative(out.splev.kv)
        /\ Len(out.splev.kv) = Len(out.cv) + opts.degree

\* C22, with the length the code gives: the knot vector runs from -degree to
\* extended_count + 2 * degree - 2, so its length is extended_count + 3 * degree - 1.
C22_PeriodicKnotVector ==
    Resampled /\ opts.periodic /\ Len(opts.cv) >= 1 /\ opts.degree >= 1 =>
        /\ ConsecutiveFromNegative(out.splev.kv)
        /\ out.splev.kv[1] = 0 - opts.degree
        /\ Len(out.splev.kv) = Len(out.cv) + 3 * opts.degree - 1

\* a, b closed at degree 1: four control points and the knots -1..4
C22_Witness ==
    /\ Resampled
    /\ opts.periodic
    /\ opts.cv = <<"a", "b">>
    /\ opts.degree = 1
    /\ Len(out.cv) = 4
    /\ out.splev.kv = <<-1, 0, 1, 2, 3, 4>>

-----------------------------------------------------------------------------
(* What the claim about the wrappers' calls speaks of *)

\* the file the wrapper writes
WrittenFile ==
    IF entry = "convert_multi_csv_to_gpx" THEN ReplaceCsvByGpx(opts.input_file)
    ELSE opts.output_file

\* the input file is of the wrapper's kind, the latitude and longitude columns
\* are in the table and the output path is a .gpx path
ValidWrapperCall ==
    /\ opts.output_file = OutGpx
    /\ opts.cols["lats_colname"] \in DOMAIN orig_df.data
    /\ opts.cols["longs_colname"] \in DOMAIN orig_df.data
    /\ CASE entry = "csv_to_gpx" -> opts.input_file = InCsv
         [] entry = "excel_to_gpx" -> opts.input_file = InXlsx
         [] entry = "json_to_gpx" -> opts.input_file = InJson
         [] entry = "convert_multi_csv_to_gpx" -> opts.input_file = InCsv
         [] OTHER -> FALSE

\* C25: every wrapper passes dataframe_to_gpx only parameters it accepts, so a
\* valid call of a wrapper returns without an error, having emitted the points of
\* the valid rows and written the document.
C25_WrappersReachEmission ==
    pc = "done" /\ ValidWrapperCall =>
        /\ raised = ""
        /\ Len(out.points) = Cardinality(ValidRows)
        /\ WrittenFile \in DOMAIN fs
        /\ fs[WrittenFile] = [kind |-> "gpx", points |-> out.points]

====
